---------------------------- MODULE Spec2Model ----------------------------
(* Silver Analytics Dashboard (src/2547218.py): one render pass of the     *)
(* Streamlit script.  A pass loads the two CSV tables, reads the page      *)
(* selector and runs exactly one of the three page branches.               *)
(*                                                                         *)
(* Text is a sequence of characters, each a one-character string; a code    *)
(* point that a string cannot hold is written by its name, as "U+00A0".    *)
(* A table is a record                                                     *)
(* [columns, rows]: columns is the sequence of column labels, rows the     *)
(* sequence of rows, each row a function from column label to cell.        *)
(* Numbers are exact.  A weight is a multiple of a quarter unit and is     *)
(* held as its number of quarters, as is an amount of rupees (number_input,*)
(* weight, total_cost); such values and their products with the slider's   *)
(* whole price are exact as doubles.  The amount a metric is given is held *)
(* in thousandths (value) and what it prints in hundredths, or in whole    *)
(* grams for the weight (text).                                            *)
EXTENDS Integers, Sequences, FiniteSets, TLC

VARIABLES
  pc,              \* position of the script in the render pass
  page,            \* st.sidebar.radio("Navigation", ...)
  csv_sales,       \* state_wise_silver_purchased_kg.csv as read
  csv_prices,      \* historical_silver_price.csv as read
  shp,             \* India_State_Boundary.shp as read
  silver_sales,    \* DataFrame silver_sales
  price_history,   \* DataFrame price_history
  india_states,    \* GeoDataFrame india_states
  number_input,    \* value returned by st.number_input("Silver Weight")
  weight,          \* variable weight
  unit,            \* st.selectbox("Unit")
  price_per_gram,  \* st.slider("Price per gram (INR)")
  currency,        \* st.selectbox("Currency")
  total_cost,      \* variable total_cost
  metrics,         \* what c1.metric / c2.metric / c3.metric were given
  price_filter,    \* st.radio("Filter price range (INR per kg)")
  filtered,        \* DataFrame filtered
  chart,           \* series handed to st.line_chart / st.bar_chart
  total,           \* variable total
  avg,             \* variable avg
  top_state,       \* variable top_state
  top_states,      \* DataFrame top_states
  january_prices,  \* DataFrame january_prices
  state_col,       \* variable state_col
  error,           \* message given to st.error
  merged,          \* GeoDataFrame merged
  figure,          \* what st.pyplot drew
  text,            \* argument of normalize
  clean,           \* normalize(text)
  clean2           \* normalize(normalize(text))

vars == <<pc, page, csv_sales, csv_prices, shp, silver_sales, price_history,
          india_states, number_input, weight, unit, price_per_gram, currency,
          total_cost, metrics, price_filter, filtered, chart, total, avg,
          top_state, top_states, january_prices, state_col, error, merged,
          figure, text, clean, clean2>>

-----------------------------------------------------------------------------
(* Bounds of the model.                                                    *)

MaxLen == 3

MaxWeight == 8

MaxPriceRows == 3

MaxRows == 6

MaxCols == 3

MaxGeoRows == 2

-----------------------------------------------------------------------------
(* Text.                                                                   *)

UpperCase == <<"A","B","C","D","E","F","G","H","I","J","K","L","M",
               "N","O","P","Q","R","S","T","U","V","W","X","Y","Z">>

LowerCase == <<"a","b","c","d","e","f","g","h","i","j","k","l","m",
               "n","o","p","q","r","s","t","u","v","w","x","y","z">>

RECURSIVE Flatten(_)
Flatten(ss) == IF ss = <<>> THEN <<>> ELSE Head(ss) \o Flatten(Tail(ss))

Digits == {"0", "1", "2", "3", "4", "5", "6", "7", "8", "9"}

Punctuation ==
  {"!", "\"", "#", "$", "%", "&", "'", "(", ")", "*", "+", ",", "-", ".", "/",
   ":", ";", "<", "=", ">", "?", "@", "[", "\\", "]", "^", "_", "U+0060", "{", "|",
   "}", "~"}

\* the 29 code points str.strip() removes from both ends (str.isspace)
Whitespace ==
  {"\t", "\n", "U+000B", "\f", "\r", "U+001C", "U+001D", "U+001E", "U+001F",
   " ", "U+0085", "U+00A0", "U+1680", "U+2000", "U+2001", "U+2002", "U+2003",
   "U+2004", "U+2005", "U+2006", "U+2007", "U+2008", "U+2009", "U+200A",
   "U+2028", "U+2029", "U+202F", "U+205F", "U+3000"}

\* letters beyond ASCII that the model knows: E acute (U+00C9, U+00E9),
\* I with dot above (U+0130), sigma (U+03A3, U+03C3, final U+03C2)
OtherLower == {"U+00E9", "U+03C3", "U+03C2"}

\* the combining dot above, which the lower case of U+0130 contains
CombiningDot == "U+0307"

\* the characters str.lower() leaves as they are
Unchanged ==
  {LowerCase[i] : i \in 1..Len(LowerCase)} \cup OtherLower \cup Digits
    \cup Punctuation \cup Whitespace \cup {CombiningDot}

\* Unicode property Cased
Cased(c) ==
  \/ \E i \in 1..Len(UpperCase) : UpperCase[i] = c \/ LowerCase[i] = c
  \/ c \in OtherLower \cup {"U+00C9", "U+0130", "U+03A3"}

\* Unicode property Case_Ignorable
CaseIgnorable == {"'", ".", ":", "^", "U+0060", CombiningDot}

\* the Final_Sigma context of s[i]: a cased letter before it and none after
\* it, case-ignorable characters skipped on both sides
FinalSigma(s, i) ==
  LET before == {j \in 1..(i - 1) : s[j] \notin CaseIgnorable}
      after == {j \in (i + 1)..Len(s) : s[j] \notin CaseIgnorable}
      last == CHOOSE j \in before : \A k \in before : k <= j
      first == CHOOSE j \in after : \A k \in after : j <= k
  IN  /\ before # {}
      /\ Cased(s[last])
      /\ after = {} \/ ~Cased(s[first])

\* str.lower() at s[i]: the lower case of a character may be two code points
\* and that of a capital sigma depends on its context; a character outside
\* the model's alphabet has no value
LowerAt(s, i) ==
  CASE \E k \in 1..Len(UpperCase) : UpperCase[k] = s[i] ->
         <<LowerCase[CHOOSE k \in 1..Len(UpperCase) : UpperCase[k] = s[i]]>>
    [] s[i] = "U+00C9" -> <<"U+00E9">>
    [] s[i] = "U+0130" -> <<"i", CombiningDot>>
    [] s[i] = "U+03A3" -> IF FinalSigma(s, i) THEN <<"U+03C2">> ELSE <<"U+03C3">>
    [] s[i] \in Unchanged -> <<s[i]>>

\* str.lower()
lower(s) == Flatten([i \in 1..Len(s) |-> LowerAt(s, i)])

\* str.replace(old, new) for a one-character old
replace(s, old, new) ==
  Flatten([i \in 1..Len(s) |-> IF s[i] = old THEN new ELSE <<s[i]>>])

RECURSIVE LStrip(_)
LStrip(s) ==
  IF s # <<>> /\ Head(s) \in Whitespace THEN LStrip(Tail(s)) ELSE s

RECURSIVE RStrip(_)
RStrip(s) ==
  IF s # <<>> /\ s[Len(s)] \in Whitespace
    THEN RStrip(SubSeq(s, 1, Len(s) - 1)) ELSE s

\* str.strip()
strip(s) == RStrip(LStrip(s))

\* a cell that holds no text: the NaN of an empty CSV field
MissingCell == <<"NaN">>

\* str(text): text as it is, "nan" for a missing cell
str(t) == IF t = MissingCell THEN <<"n", "a", "n">> ELSE t

\* a replacement that capitalises the word it inserts
NormalizeCapitalAnd(t) ==
  strip(replace(replace(lower(str(t)), "&", <<"A","n","d">>), " ", <<>>))

\* def normalize(text)
normalize(t) ==
  strip(replace(replace(lower(str(t)), "&", <<"a","n","d">>), " ", <<>>))

-----------------------------------------------------------------------------
(* Tables.                                                                 *)

Table(cols, rows) == [columns |-> cols, rows |-> rows]

\* no DataFrame assigned yet
NoTable == Table(<<>>, <<>>)

\* a missing cell of a joined row (NaN), and a present one
NaN == <<>>

Some(v) == <<v>>

\* "x in s" for a sequence s
InSeq(x, s) == \E i \in 1..Len(s) : s[i] = x

\* the sequences over S of length lo..hi
SeqsOf(S, lo, hi) == UNION {[1..n -> S] : n \in lo..hi}

\* df.set_index(ix)[col]: the series of (index, value) pairs, in row order
SetIndex(t, ix, col) == [i \in 1..Len(t.rows) |-> <<t.rows[i][ix], t.rows[i][col]>>]

\* df[col] = values, one value per row: a new column is appended, an existing
\* one is overwritten, the rows keep their order
AssignColumn(t, col, values) ==
  Table(IF InSeq(col, t.columns) THEN t.columns ELSE Append(t.columns, col),
        [i \in 1..Len(t.rows) |-> (col :> values[i]) @@ t.rows[i]])

-----------------------------------------------------------------------------
(* The inputs of a render pass: the three files and the widget values.     *)

Pages == {"Price Calculator", "Sales Insights", "Geographical Analysis"}

Units == {"grams", "kilograms"}

Currencies == {"INR", "USD"}

\* the three radio labels: "<= 20,000", "20,000 - 30,000", ">= 30,000"
PriceFilters == {"<= 20,000", "20,000 - 30,000", ">= 30,000"}

\* st.slider(min_value=50, max_value=120)
SliderMin == 50

SliderMax == 120

SalesColumns == <<"State", "Silver_Purchased_kg">>

PriceColumns == <<"Year", "Month", "Silver_Price_INR_per_kg">>

SalesRow(s, kg) == [State |-> s, Silver_Purchased_kg |-> kg]

PriceRow(y, m, p) == [Year |-> y, Month |-> m, Silver_Price_INR_per_kg |-> p]

\* region names as the two sources spell them
GeoNames == << <<"A", "&", "B">>, <<"a", " ", "a", "n", "d", " ", "b">>,
               <<"G", "o", "a">> >>

KgValues == {10, 30}

JoinKgValues == {0, 10}

PriceValues == {15000, 20000, 25000, 30000, 35000}

Months == {"Jan", "Feb"}

\* purchase files of the Sales Insights cases: 1..MaxRows states named A, B, ...
SalesFiles ==
  {Table(SalesColumns, [i \in 1..Len(f) |-> SalesRow(<<UpperCase[i]>>, f[i])]) :
     f \in SeqsOf(KgValues, 1, MaxRows)}

\* the State cells of the join cases: the region names, or an empty field
JoinStates == Append(GeoNames, MissingCell)

\* purchase files of the join cases
JoinSalesFiles ==
  {Table(SalesColumns, [i \in 1..Len(f) |-> SalesRow(JoinStates[f[i][1]], f[i][2])]) :
     f \in SeqsOf((1..Len(JoinStates)) \X JoinKgValues, 0, MaxGeoRows)}

\* price files: year 2000+i in row i
PriceFiles ==
  {Table(PriceColumns, [i \in 1..Len(f) |-> PriceRow(2000 + i, f[i][1], f[i][2])]) :
     f \in SeqsOf(Months \X PriceValues, 0, MaxPriceRows)}

\* attribute labels a shapefile may carry besides its geometry
ShapeLabels == <<"State_Name", "st_nm", "STATE", "NAME_1", "NAME", "DISTRICT">>

LabelPos(c) == CHOOSE i \in 1..Len(ShapeLabels) : ShapeLabels[i] = c

\* a shapefile with attribute columns cols (then geometry) and the given
\* cell text per (column, row); the geometry of row i is polygon i
ShapeFile(cols, n, cell) ==
  Table(Append(cols, "geometry"),
        [i \in 1..n |-> [c \in {cols[k] : k \in 1..Len(cols)} \cup {"geometry"} |->
                           IF c = "geometry" THEN i ELSE cell[c][i]]])

\* the labels of a column sequence
Labels(cols) == {cols[k] : k \in 1..Len(cols)}

\* shapefiles of the column-detection cases: up to MaxCols distinct attribute
\* labels in any order, two records whose text differs from column to column
ColumnShapeFiles ==
  {ShapeFile(cols, 2, [c \in Labels(cols) |-> [i \in 1..2 |->
                         GeoNames[((LabelPos(c) + i) % Len(GeoNames)) + 1]]]) :
     cols \in {q \in SeqsOf({ShapeLabels[k] : k \in 1..Len(ShapeLabels)}, 0, MaxCols) :
                 \A i, j \in 1..Len(q) : i # j => q[i] # q[j]}}

\* shapefiles of the join cases: one name column, up to MaxGeoRows records
JoinShapeFiles ==
  {ShapeFile(<<"st_nm">>, Len(f), [c \in {"st_nm"} |-> [i \in 1..Len(f) |-> GeoNames[f[i]]]]) :
     f \in SeqsOf(1..Len(GeoNames), 0, MaxGeoRows)}

DefaultSales ==
  Table(SalesColumns, <<SalesRow(GeoNames[2], 10), SalesRow(GeoNames[3], 30),
                        SalesRow(GeoNames[3], 30)>>)

DefaultPrices ==
  Table(PriceColumns, <<PriceRow(2001, "Jan", 15000), PriceRow(2002, "Feb", 20000),
                        PriceRow(2003, "Jan", 25000), PriceRow(2004, "Jan", 35000)>>)

DefaultShape ==
  ShapeFile(<<"st_nm">>, 2, [c \in {"st_nm"} |-> [i \in 1..2 |-> GeoNames[i + 1]]])

\* first statement of the selected page branch
Start(p) ==
  CASE p = "Price Calculator" -> "calculator"
    [] p = "Sales Insights" -> "insights"
    [] OTHER -> "read_file"

\* the state after lines 17-27 with the widgets at the given values
InitPass(p, ni, u, ppg, cur, pf, sales, prices, geo) ==
  /\ pc = Start(p) /\ page = p
  /\ csv_sales = sales /\ csv_prices = prices /\ shp = geo
  /\ silver_sales = sales /\ price_history = prices /\ india_states = NoTable
  /\ number_input = ni /\ weight = ni /\ unit = u /\ price_per_gram = ppg
  /\ currency = cur /\ price_filter = pf
  /\ total_cost = 0 /\ metrics = <<>> /\ filtered = NoTable /\ chart = <<>>
  /\ total = 0 /\ avg = 0 /\ top_state = <<>> /\ top_states = NoTable
  /\ january_prices = NoTable /\ state_col = "None" /\ error = ""
  /\ merged = NoTable /\ figure = <<>>
  /\ text = <<>> /\ clean = <<>> /\ clean2 = <<>>

\* widget defaults: value=100.0 (400 quarters), first option of each selectbox
\* and radio, value=75
InitDefaults(p, sales, prices, geo) ==
  InitPass(p, 400, "grams", 75, "INR", "<= 20,000", sales, prices, geo)

\* A pass starts on one page with the files as read.  Each case varies the
\* inputs its page reads and holds the others at a default: the calculator
\* widgets, the price file under each bucket, the purchase file and the price
\* file of Sales Insights, the shapefile's columns, and the two sides of the join.
Init ==
  \/ \E ni \in 0..MaxWeight, u \in Units, ppg \in SliderMin..SliderMax,
        cur \in Currencies, pf \in PriceFilters :
       InitPass("Price Calculator", ni, u, ppg, cur, pf,
                DefaultSales, DefaultPrices, DefaultShape)
  \/ \E pf \in PriceFilters, prices \in PriceFiles :
       InitPass("Price Calculator", 400, "grams", 75, "INR", pf,
                DefaultSales, prices, DefaultShape)
  \/ \E sales \in SalesFiles :
       InitDefaults("Sales Insights", sales, DefaultPrices, DefaultShape)
  \/ \E prices \in PriceFiles :
       InitDefaults("Sales Insights", DefaultSales, prices, DefaultShape)
  \/ \E geo \in ColumnShapeFiles :
       InitDefaults("Geographical Analysis", DefaultSales, DefaultPrices, geo)
  \/ \E geo \in JoinShapeFiles, sales \in JoinSalesFiles :
       InitDefaults("Geographical Analysis", sales, DefaultPrices, geo)

-----------------------------------------------------------------------------
(* Page 1: Price Calculator (lines 35-101).                                *)

GramsPerKilogram == 1000

\* usd_rate = 0.012, in thousandths
UsdRateThousandths == 12

LowLimit == 20000

HighLimit == 30000

\* the ":,.0f" format of a weight given in quarters, in whole units: the
\* nearest whole number, the even one at a half (a half is exact as a double)
Format0(w) ==
  LET q == w \div 4
      r == w % 4
  IN  IF r < 2 THEN q
      ELSE IF r > 2 THEN q + 1
      ELSE IF q % 2 = 0 THEN q ELSE q + 1

\* the ":,.2f" format of an amount given in thousandths, in hundredths: the
\* nearest hundredth.  The format rounds the double that total_cost * usd_rate
\* produced, which lies a rounding error away from the exact amount, so an
\* amount halfway between two hundredths prints as either of them
Format2(v) ==
  LET q == v \div 10
      r == v % 10
  IN  IF r < 5 THEN {q}
      ELSE IF r > 5 THEN {q + 1}
      ELSE {q, q + 1}

\* the amount c2.metric shows, in thousandths, of a cost in quarter rupees:
\* total_cost * usd_rate for USD, total_cost otherwise
CostValue(cost, cur) ==
  IF cur = "USD" THEN (cost * UsdRateThousandths) \div 4 ELSE cost * 250

\* the weight converted with the wrong factor
ToGramsHundredfold(w, u) == IF u = "kilograms" THEN w * 100 ELSE w

\* if unit == "kilograms": weight *= 1000
ToGrams(w, u) == IF u = "kilograms" THEN w * GramsPerKilogram ELSE w

\* lines 57-71
ComputeCost ==
  /\ pc = "calculator"
  /\ weight' = ToGrams(weight, unit)
  /\ total_cost' = weight' * price_per_gram
  /\ \E shown \in Format2(CostValue(total_cost', currency)) :
       metrics' = << [label |-> "Weight (grams)", text |-> Format0(weight')],
                    [label |-> "Total Cost", currency |-> currency,
                     value |-> CostValue(total_cost', currency),
                     text |-> shown] >>
  /\ pc' = "price_history"
  /\ UNCHANGED <<page, csv_sales, csv_prices, shp, silver_sales, price_history,
                 india_states, number_input, unit, price_per_gram, currency,
                 price_filter, filtered, chart, total, avg, top_state,
                 top_states, january_prices, state_col, error, merged, figure,
                 text, clean, clean2>>

\* a low bucket that leaves its limit out
InBucketStrictLow(pf, p) ==
  CASE pf = "<= 20,000" -> p < LowLimit
    [] pf = "20,000 - 30,000" -> p > LowLimit /\ p < HighLimit
    [] OTHER -> p >= HighLimit

\* a middle bucket that takes in both of its limits
InBucketClosedMiddle(pf, p) ==
  CASE pf = "<= 20,000" -> p <= LowLimit
    [] pf = "20,000 - 30,000" -> p >= LowLimit /\ p <= HighLimit
    [] OTHER -> p >= HighLimit

\* the three branches' conditions on Silver_Price_INR_per_kg (lines 85-97)
InBucket(pf, p) ==
  CASE pf = "<= 20,000" -> p <= LowLimit
    [] pf = "20,000 - 30,000" -> p > LowLimit /\ p < HighLimit
    [] OTHER -> p >= HighLimit

\* price_history[ condition ]
PriceBucket(t, pf) ==
  Table(t.columns, SelectSeq(t.rows, LAMBDA r : InBucket(pf, r.Silver_Price_INR_per_kg)))

\* a filter that rebinds price_history to its result
FilterPricesInPlace ==
  /\ pc = "price_history"
  /\ filtered' = PriceBucket(price_history, price_filter)
  /\ price_history' = filtered'
  /\ chart' = Append(chart, [kind |-> "line",
                             series |-> SetIndex(filtered', "Year",
                                                 "Silver_Price_INR_per_kg")])
  /\ pc' = "done"
  /\ UNCHANGED <<page, csv_sales, csv_prices, shp, silver_sales,
                 india_states, number_input, weight, unit, price_per_gram,
                 currency, total_cost, metrics, price_filter, total, avg,
                 top_state, top_states, january_prices, state_col, error,
                 merged, figure, text, clean, clean2>>

\* lines 85-101
FilterPrices ==
  /\ pc = "price_history"
  /\ filtered' = PriceBucket(price_history, price_filter)
  /\ chart' = Append(chart, [kind |-> "line",
                             series |-> SetIndex(filtered', "Year",
                                                 "Silver_Price_INR_per_kg")])
  /\ pc' = "done"
  /\ UNCHANGED <<page, csv_sales, csv_prices, shp, silver_sales, price_history,
                 india_states, number_input, weight, unit, price_per_gram,
                 currency, total_cost, metrics, price_filter, total, avg,
                 top_state, top_states, january_prices, state_col, error,
                 merged, figure, text, clean, clean2>>

-----------------------------------------------------------------------------
(* Page 2: Sales Insights (lines 106-141).                                 *)

\* .head(5)
TopN == 5

Kg(rows) == [i \in 1..Len(rows) |-> rows[i].Silver_Purchased_kg]

\* Series.sum()
RECURSIVE Sum(_)
Sum(xs) == IF xs = <<>> THEN 0 ELSE Head(xs) + Sum(Tail(xs))

\* int(num / den): truncation towards zero
IntOf(num, den) == IF num >= 0 THEN num \div den ELSE -((-num) \div den)

\* the last row holding the maximum
IdxMaxLast(xs) ==
  CHOOSE i \in 1..Len(xs) :
    /\ \A j \in 1..Len(xs) : xs[j] <= xs[i]
    /\ \A j \in (i + 1)..Len(xs) : xs[j] < xs[i]

\* Series.idxmax(): the first row holding the maximum
idxmax(xs) ==
  CHOOSE i \in 1..Len(xs) :
    /\ \A j \in 1..Len(xs) : xs[j] <= xs[i]
    /\ \A j \in 1..(i - 1) : xs[j] < xs[i]

\* lines 111-120; on a table without rows int(nan) raises and the pass ends
Aggregate ==
  /\ pc = "insights"
  /\ Len(silver_sales.rows) > 0
  /\ total' = IntOf(Sum(Kg(silver_sales.rows)), 1)
  /\ avg' = IntOf(Sum(Kg(silver_sales.rows)), Len(silver_sales.rows))
  /\ top_state' = silver_sales.rows[idxmax(Kg(silver_sales.rows))].State
  /\ metrics' = << [label |-> "Total Silver Purchased (kg)", text |-> total'],
                  [label |-> "Average per State (kg)", text |-> avg'],
                  [label |-> "Top Consuming State", text |-> top_state'] >>
  /\ pc' = "top_states"
  /\ UNCHANGED <<page, csv_sales, csv_prices, shp, silver_sales, price_history,
                 india_states, number_input, weight, unit, price_per_gram,
                 currency, total_cost, price_filter, filtered, chart,
                 top_states, january_prices, state_col, error, merged, figure,
                 text, clean, clean2>>

\* sort_values(by="Silver_Purchased_kg", ascending=False) with the default
\* kind="quicksort", which is not a stable sort: every arrangement of the rows
\* in descending order of value is a possible result, as index sequences over S
RECURSIVE DescendingOrders(_, _)
DescendingOrders(xs, S) ==
  IF S = {} THEN {<<>>}
  ELSE UNION {{<<i>> \o rest : rest \in DescendingOrders(xs, S \ {i})} :
                i \in {j \in S : \A k \in S : xs[k] <= xs[j]}}

\* the possible results of silver_sales.sort_values(...)
sort_values(t) ==
  {Table(t.columns, [k \in 1..Len(o) |-> t.rows[o[k]]]) :
     o \in DescendingOrders(Kg(t.rows), 1..Len(t.rows))}

\* DataFrame.head(n)
head(t, n) ==
  Table(t.columns, SubSeq(t.rows, 1, IF Len(t.rows) < n THEN Len(t.rows) ELSE n))

\* lines 124-131
TopStates ==
  /\ pc = "top_states"
  /\ \E sorted \in sort_values(silver_sales) : top_states' = head(sorted, TopN)
  /\ chart' = Append(chart, [kind |-> "bar",
                             series |-> SetIndex(top_states', "State",
                                                 "Silver_Purchased_kg")])
  /\ pc' = "january"
  /\ UNCHANGED <<page, csv_sales, csv_prices, shp, silver_sales, price_history,
                 india_states, number_input, weight, unit, price_per_gram,
                 currency, total_cost, metrics, price_filter, filtered, total,
                 avg, top_state, january_prices, state_col, error, merged,
                 figure, text, clean, clean2>>

\* lines 135-141
JanuaryPrices ==
  /\ pc = "january"
  /\ january_prices' = Table(price_history.columns,
                             SelectSeq(price_history.rows, LAMBDA r : r.Month = "Jan"))
  /\ chart' = Append(chart, [kind |-> "line",
                             series |-> SetIndex(january_prices', "Year",
                                                 "Silver_Price_INR_per_kg")])
  /\ pc' = "done"
  /\ UNCHANGED <<page, csv_sales, csv_prices, shp, silver_sales, price_history,
                 india_states, number_input, weight, unit, price_per_gram,
                 currency, total_cost, metrics, price_filter, filtered, total,
                 avg, top_state, top_states, state_col, error, merged, figure,
                 text, clean, clean2>>

-----------------------------------------------------------------------------
(* Page 3: Geographical Analysis (lines 146-215).                          *)

possible_cols == <<"State_Name", "st_nm", "STATE", "NAME_1", "NAME">>

\* a scan of the dataset's columns that takes the first one that is a candidate
RECURSIVE ScanDatasetOrder(_, _)
ScanDatasetOrder(cands, cols) ==
  IF cols = <<>> THEN "None"
  ELSE IF InSeq(Head(cols), cands) THEN Head(cols)
  ELSE ScanDatasetOrder(cands, Tail(cols))

\* for col in possible_cols: if col in columns: state_col = col; break
RECURSIVE ScanCandidates(_, _)
ScanCandidates(cands, cols) ==
  IF cands = <<>> THEN "None"
  ELSE IF InSeq(Head(cands), cols) THEN Head(cands)
  ELSE ScanCandidates(Tail(cands), cols)

\* lines 156-159
ReadFile ==
  /\ pc = "read_file"
  /\ india_states' = shp
  /\ pc' = "detect"
  /\ UNCHANGED <<page, csv_sales, csv_prices, shp, silver_sales, price_history,
                 number_input, weight, unit, price_per_gram, currency,
                 total_cost, metrics, price_filter, filtered, chart, total, avg,
                 top_state, top_states, january_prices, state_col, error,
                 merged, figure, text, clean, clean2>>

\* lines 162-168
DetectStateCol ==
  /\ pc = "detect"
  /\ state_col' = ScanCandidates(possible_cols, india_states.columns)
  /\ pc' = "check"
  /\ UNCHANGED <<page, csv_sales, csv_prices, shp, silver_sales, price_history,
                 india_states, number_input, weight, unit, price_per_gram,
                 currency, total_cost, metrics, price_filter, filtered, chart,
                 total, avg, top_state, top_states, january_prices, error,
                 merged, figure, text, clean, clean2>>

\* the check with its condition inverted
MissingColumnInverted ==
  /\ pc = "check"
  /\ state_col # "None"
  /\ error' = "No state name column found in shapefile."
  /\ pc' = "stopped"
  /\ UNCHANGED <<page, csv_sales, csv_prices, shp, silver_sales, price_history,
                 india_states, number_input, weight, unit, price_per_gram,
                 currency, total_cost, metrics, price_filter, filtered, chart,
                 total, avg, top_state, top_states, january_prices, state_col,
                 merged, figure, text, clean, clean2>>

\* lines 170-172: st.error(...) and st.stop(), which ends the pass
MissingColumn ==
  /\ pc = "check"
  /\ state_col = "None"
  /\ error' = "No state name column found in shapefile."
  /\ pc' = "stopped"
  /\ UNCHANGED <<page, csv_sales, csv_prices, shp, silver_sales, price_history,
                 india_states, number_input, weight, unit, price_per_gram,
                 currency, total_cost, metrics, price_filter, filtered, chart,
                 total, avg, top_state, top_states, january_prices, state_col,
                 merged, figure, text, clean, clean2>>

\* lines 184-185: both frames get a state_clean column, in place
NormalizeNames ==
  /\ pc = "check"
  /\ state_col # "None"
  /\ india_states' =
       AssignColumn(india_states, "state_clean",
                    [i \in 1..Len(india_states.rows) |->
                       normalize(india_states.rows[i][state_col])])
  /\ silver_sales' =
       AssignColumn(silver_sales, "state_clean",
                    [i \in 1..Len(silver_sales.rows) |->
                       normalize(silver_sales.rows[i].State)])
  /\ pc' = "merge"
  /\ UNCHANGED <<page, csv_sales, csv_prices, shp, price_history,
                 number_input, weight, unit, price_per_gram, currency,
                 total_cost, metrics, price_filter, filtered, chart, total, avg,
                 top_state, top_states, january_prices, state_col, error,
                 merged, figure, text, clean, clean2>>

\* the columns the right frame adds to a joined row
Added(right, on) == {right.columns[k] : k \in 1..Len(right.columns)} \ {on}

\* the cell of column c that right row r gives to a joined row; State is the
\* column whose field may be empty
Cell(r, c) == IF c = "State" /\ r[c] = MissingCell THEN NaN ELSE Some(r[c])

\* an inner join: a left row without a match is dropped
InnerRows(l, right, on) ==
  LET hits == SelectSeq(right.rows, LAMBDA r : r[on] = l[on])
  IN  [j \in 1..Len(hits) |-> [c \in Added(right, on) |-> Cell(hits[j], c)] @@ l]

\* the joined rows of one left row: one per right row with the same key, in
\* the right frame's order, or one with missing cells when there is none
LeftRows(l, right, on) ==
  LET hits == SelectSeq(right.rows, LAMBDA r : r[on] = l[on])
  IN  IF hits = <<>> THEN << [c \in Added(right, on) |-> NaN] @@ l >>
      ELSE [j \in 1..Len(hits) |-> [c \in Added(right, on) |-> Cell(hits[j], c)] @@ l]

\* left.merge(right, on=on, how="left"); no other label is shared by the frames
merge(left, right, on) ==
  Table(left.columns
          \o SelectSeq(right.columns, LAMBDA c : c # on),
        Flatten([i \in 1..Len(left.rows) |-> LeftRows(left.rows[i], right, on)]))

\* lines 188-192
Merge ==
  /\ pc = "merge"
  /\ merged' = merge(india_states, silver_sales, "state_clean")
  /\ pc' = "plot"
  /\ UNCHANGED <<page, csv_sales, csv_prices, shp, silver_sales, price_history,
                 india_states, number_input, weight, unit, price_per_gram,
                 currency, total_cost, metrics, price_filter, filtered, chart,
                 total, avg, top_state, top_states, january_prices, state_col,
                 error, figure, text, clean, clean2>>

\* lines 195-215: every joined row is drawn, shaded by Silver_Purchased_kg on
\* the "Greys" map, or in light grey under the label "No Data" when it is missing
Plot ==
  /\ pc = "plot"
  /\ figure' = [i \in 1..Len(merged.rows) |->
                  [geometry |-> merged.rows[i].geometry,
                   shade |-> IF merged.rows[i].Silver_Purchased_kg = NaN
                               THEN "No Data" ELSE "Greys",
                   value |-> merged.rows[i].Silver_Purchased_kg]]
  /\ pc' = "done"
  /\ UNCHANGED <<page, csv_sales, csv_prices, shp, silver_sales, price_history,
                 india_states, number_input, weight, unit, price_per_gram,
                 currency, total_cost, metrics, price_filter, filtered, chart,
                 total, avg, top_state, top_states, january_prices, state_col,
                 error, merged, text, clean, clean2>>

-----------------------------------------------------------------------------
(* One render pass.                                                        *)

Next ==
  \/ ComputeCost
  \/ FilterPrices
  \/ Aggregate
  \/ TopStates
  \/ JanuaryPrices
  \/ ReadFile
  \/ DetectStateCol
  \/ MissingColumn
  \/ NormalizeNames
  \/ Merge
  \/ Plot

Spec == Init /\ [][Next]_vars

-----------------------------------------------------------------------------
(* normalize on its own: every text of up to MaxLen characters, normalized *)
(* once and then once more.                                                *)

Chars == {"A", "a", "n", "d", "&", " ", "\t", "\f", "U+0130", "U+03A3"}

InitNormalize ==
  /\ pc = "normalize"
  /\ text \in SeqsOf(Chars, 0, MaxLen)
  /\ clean = <<>> /\ clean2 = <<>>
  /\ page = "Geographical Analysis"
  /\ csv_sales = DefaultSales /\ csv_prices = DefaultPrices /\ shp = DefaultShape
  /\ silver_sales = DefaultSales /\ price_history = DefaultPrices
  /\ india_states = DefaultShape
  /\ number_input = 400 /\ weight = 400 /\ unit = "grams" /\ price_per_gram = 75
  /\ currency = "INR" /\ price_filter = "<= 20,000"
  /\ total_cost = 0 /\ metrics = <<>> /\ filtered = NoTable /\ chart = <<>>
  /\ total = 0 /\ avg = 0 /\ top_state = <<>> /\ top_states = NoTable
  /\ january_prices = NoTable /\ state_col = "st_nm" /\ error = ""
  /\ merged = NoTable /\ figure = <<>>

\* normalize(text)
NormalizeOnce ==
  /\ pc = "normalize"
  /\ clean' = normalize(text)
  /\ pc' = "normalize_again"
  /\ UNCHANGED <<page, csv_sales, csv_prices, shp, silver_sales, price_history,
                 india_states, number_input, weight, unit, price_per_gram,
                 currency, total_cost, metrics, price_filter, filtered, chart,
                 total, avg, top_state, top_states, january_prices, state_col,
                 error, merged, figure, text, clean2>>

\* normalize(normalize(text))
NormalizeAgain ==
  /\ pc = "normalize_again"
  /\ clean2' = normalize(clean)
  /\ pc' = "normalized"
  /\ UNCHANGED <<page, csv_sales, csv_prices, shp, silver_sales, price_history,
                 india_states, number_input, weight, unit, price_per_gram,
                 currency, total_cost, metrics, price_filter, filtered, chart,
                 total, avg, top_state, top_states, january_prices, state_col,
                 error, merged, figure, text, clean>>

NextNormalize == NormalizeOnce \/ NormalizeAgain

SpecNormalize == InitNormalize /\ [][NextNormalize]_vars

-----------------------------------------------------------------------------
(* Properties.                                                             *)

GeoPage == page = "Geographical Analysis"

\* the pass has computed merged
Joined == GeoPage /\ pc \in {"plot", "done"}

\* the joined rows that carry the geometry of shapefile record i
RowsOf(i) == {k \in 1..Len(merged.rows) : merged.rows[k].geometry = shp.rows[i].geometry}

\* shapefile record i has a purchase record with the same normalized name
Matched(i) ==
  \E j \in 1..Len(csv_sales.rows) :
    normalize(csv_sales.rows[j].State) = normalize(shp.rows[i][state_col])

\* C1: in the join, every geometry record appears in the joined output at
\* least once, with its own attribute cells; a geometry record whose
\* normalized name equals the normalized State of no purchase record appears
\* exactly once, with a missing Silver_Purchased_kg (not omitted, not zero).
C1_LeftJoinKeepsGeometry ==
  Joined =>
    \A i \in 1..Len(shp.rows) :
      /\ RowsOf(i) # {}
      /\ \A k \in RowsOf(i) : \A c \in DOMAIN shp.rows[i] :
           merged.rows[k][c] = shp.rows[i][c]
      /\ ~Matched(i) =>
           /\ Cardinality(RowsOf(i)) = 1
           /\ \A k \in RowsOf(i) : /\ merged.rows[k].Silver_Purchased_kg = NaN
                                   /\ merged.rows[k].Silver_Purchased_kg # Some(0)

C1_Witness ==
  /\ Joined
  /\ Len(csv_sales.rows) > 0
  /\ \E i \in 1..Len(shp.rows) : ~Matched(i)
  /\ \E k \in 1..Len(merged.rows) : merged.rows[k].Silver_Purchased_kg = NaN
  /\ \E k \in 1..Len(merged.rows) : merged.rows[k].Silver_Purchased_kg = Some(0)

\* the shapefile carries one of the candidate labels
HasCandidate ==
  \E k \in 1..Len(possible_cols) : InSeq(possible_cols[k], shp.columns)

\* C2: when the geometry dataset has none of the columns State_Name, st_nm,
\* STATE, NAME_1, NAME, the geographic flow reports the error and halts: the
\* error is shown exactly in that case, the pass is then stopped, and the
\* normalization, the join and the map have not happened (nothing is drawn);
\* the pass never gets past the check without a candidate column.
C2_MissingColumnHalts ==
  /\ error # "" =>
       /\ GeoPage /\ ~HasCandidate
       /\ pc = "stopped"
       /\ india_states = shp /\ silver_sales = csv_sales
       /\ merged = NoTable /\ figure = <<>>
  /\ (GeoPage /\ ~HasCandidate) =>
       /\ pc \in {"read_file", "detect", "check", "stopped"}
       /\ pc = "stopped" => error # ""

C2_Witness ==
  /\ GeoPage /\ ~HasCandidate /\ Len(shp.rows) > 0
  /\ pc = "stopped" /\ error # "" /\ figure = <<>>

\* C3: normalize is idempotent: normalize(normalize(x)) = normalize(x) for
\* every text x; the normalized text holds no upper-case letter, no "&" and no
\* space, and neither starts nor ends with whitespace.
C3_NormalizeIdempotent ==
  pc = "normalized" =>
    /\ clean2 = clean
    /\ \A i \in 1..Len(clean) :
         /\ clean[i] \notin {"&", " "}
         /\ ~InSeq(clean[i], UpperCase)
         /\ clean[i] \notin {"U+00C9", "U+0130", "U+03A3"}
    /\ clean # <<>> => (clean[1] \notin Whitespace /\ clean[Len(clean)] \notin Whitespace)

C3_Witness ==
  /\ pc = "normalized"
  /\ text = <<"A", " ", "&">>
  /\ clean = <<"a", "a", "n", "d">>
  /\ clean2 = clean

CalcPage == page = "Price Calculator"

\* the rows of the loaded price table at exactly price p
RowsAt(p) == {i \in 1..Len(csv_prices.rows) : csv_prices.rows[i].Silver_Price_INR_per_kg = p}

Selected(i) == InSeq(csv_prices.rows[i], filtered.rows)

\* C4 as stated: a price row at exactly 20000 or exactly 30000 is selected by
\* none of the three bucket selectors.
C4_BoundaryUnclassified ==
  (CalcPage /\ pc = "done") =>
    \A i \in RowsAt(LowLimit) \cup RowsAt(HighLimit) : ~Selected(i)

\* C4 as amended: a price row at exactly 20000 is selected by the "<= 20,000"
\* bucket and by no other, and a row at exactly 30000 by the ">= 30,000"
\* bucket and by no other; the middle bucket selects neither.
C4_BoundaryClassified ==
  (CalcPage /\ pc = "done") =>
    /\ \A i \in RowsAt(LowLimit) : Selected(i) <=> price_filter = "<= 20,000"
    /\ \A i \in RowsAt(HighLimit) : Selected(i) <=> price_filter = ">= 30,000"

C4_Witness ==
  /\ CalcPage /\ pc = "done"
  /\ price_filter = "<= 20,000"
  /\ \E i \in RowsAt(LowLimit) : Selected(i)
  /\ \E i \in RowsAt(HighLimit) : ~Selected(i)

\* C5: the "<= 20,000" bucket returns exactly the rows whose price is less
\* than or equal to 20000 (20000 included), in their input order, and no
\* other rows.
C5_LowBucket ==
  (CalcPage /\ pc = "done" /\ price_filter = "<= 20,000") =>
    /\ filtered.columns = csv_prices.columns
    /\ \A k \in 1..Len(filtered.rows) :
         /\ filtered.rows[k].Silver_Price_INR_per_kg <= 20000
         /\ InSeq(filtered.rows[k], csv_prices.rows)
    /\ \A i \in 1..Len(csv_prices.rows) :
         csv_prices.rows[i].Silver_Price_INR_per_kg <= 20000 => Selected(i)
    /\ \A k \in 1..(Len(filtered.rows) - 1) :
         filtered.rows[k].Year < filtered.rows[k + 1].Year

C5_Witness ==
  /\ CalcPage /\ pc = "done" /\ price_filter = "<= 20,000"
  /\ [i \in 1..Len(csv_prices.rows) |-> csv_prices.rows[i].Silver_Price_INR_per_kg]
       = <<15000, 20000, 25000, 35000>>
  /\ [k \in 1..Len(filtered.rows) |-> filtered.rows[k].Silver_Price_INR_per_kg]
       = <<15000, 20000>>

SalesPage == page = "Sales Insights"

\* the sum of the loaded purchases, counted value by value
KgTotal ==
  LET xs == Kg(csv_sales.rows)
      vals == {xs[i] : i \in 1..Len(xs)}
      Count(v) == Cardinality({i \in 1..Len(xs) : xs[i] = v})
      RECURSIVE Add(_)
      Add(V) == IF V = {} THEN 0
                ELSE LET v == CHOOSE v \in V : TRUE IN v * Count(v) + Add(V \ {v})
  IN  Add(vals)

\* C6: for a non-empty purchase table, total is the sum of Silver_Purchased_kg
\* truncated to an integer, average the mean truncated to an integer, and
\* top_state the State of the first row in input order among those holding
\* the maximum Silver_Purchased_kg.
C6_Aggregates ==
  (SalesPage /\ pc \in {"top_states", "january", "done"}) =>
    LET rows == csv_sales.rows
        n == Len(rows)
    IN  /\ total = KgTotal
        /\ avg * n <= KgTotal /\ KgTotal < (avg + 1) * n
        /\ \E i \in 1..n :
             /\ top_state = rows[i].State
             /\ \A j \in 1..n : rows[j].Silver_Purchased_kg <= rows[i].Silver_Purchased_kg
             /\ \A j \in 1..(i - 1) :
                  rows[j].Silver_Purchased_kg < rows[i].Silver_Purchased_kg
        /\ metrics[1].text = total /\ metrics[2].text = avg
        /\ metrics[3].text = top_state

C6_Witness ==
  /\ SalesPage /\ pc = "done"
  /\ csv_sales.rows = <<SalesRow(<<"A">>, 10), SalesRow(<<"B">>, 30), SalesRow(<<"C">>, 30)>>
  /\ total = 70 /\ avg = 23 /\ top_state = <<"B">>

\* position of a top-5 row in the loaded purchase table
InputPos(r) == CHOOSE i \in 1..Len(csv_sales.rows) : csv_sales.rows[i] = r

\* C7: for a purchase table with 6 or more rows (told apart by State), the
\* top-5 operation returns
\* exactly 5 rows, sorted descending by Silver_Purchased_kg, in which rows with
\* equal Silver_Purchased_kg keep their relative input order, and no omitted
\* row has a value greater than a returned row.
C7_TopFiveStable ==
  (SalesPage /\ pc \in {"january", "done"} /\ Len(csv_sales.rows) >= 6
     /\ \A i, j \in 1..Len(csv_sales.rows) :
          i # j => csv_sales.rows[i] # csv_sales.rows[j]) =>
    LET top == top_states.rows
    IN  /\ Len(top) = 5
        /\ \A k \in 1..4 :
             \/ top[k].Silver_Purchased_kg > top[k + 1].Silver_Purchased_kg
             \/ /\ top[k].Silver_Purchased_kg = top[k + 1].Silver_Purchased_kg
                /\ InputPos(top[k]) < InputPos(top[k + 1])
        /\ \A i \in 1..Len(csv_sales.rows) :
             ~InSeq(csv_sales.rows[i], top) =>
               \A k \in 1..5 :
                 csv_sales.rows[i].Silver_Purchased_kg <= top[k].Silver_Purchased_kg

\* C8: weight in grams is weight x 1000 for kilograms and weight otherwise,
\* total = weight in grams x price per gram, and the amount shown is
\* total x 12/1000 for USD and total for INR, printed to two decimals (the
\* weight to none).  Weights and totals are in quarters, the amount in
\* thousandths, its print in hundredths.
C8_CostCalculator ==
  (CalcPage /\ pc \in {"price_history", "done"}) =>
    /\ unit = "kilograms" => weight = number_input * 1000
    /\ unit = "grams" => weight = number_input
    /\ total_cost = weight * price_per_gram
    /\ metrics[1].text * 4 - weight \in -2..2
    /\ currency = "USD" => metrics[2].value * 4 = total_cost * 12
    /\ currency = "INR" => metrics[2].value = total_cost * 250
    /\ metrics[2].currency = currency
    /\ metrics[2].text * 10 - metrics[2].value \in -5..5

C8_Witness ==
  /\ CalcPage /\ pc = "done"
  /\ number_input = 8 /\ unit = "kilograms" /\ price_per_gram = 75
  /\ currency = "USD"
  /\ weight = 8000 /\ total_cost = 600000
  /\ metrics[1].text = 2000
  /\ metrics[2].value = 1800000 /\ metrics[2].text = 180000

\* position of a label in the preference order
Rank(c) == CHOOSE k \in 1..Len(possible_cols) : possible_cols[k] = c

\* C9: column detection selects the first label of the preference order
\* State_Name, st_nm, STATE, NAME_1, NAME that is among the dataset's columns,
\* whatever the order of the columns in the dataset, and selects one whenever
\* a candidate is present.
C9_FirstCandidate ==
  (GeoPage /\ pc \notin {"read_file", "detect"}) =>
    /\ HasCandidate =>
         /\ InSeq(state_col, possible_cols)
         /\ InSeq(state_col, shp.columns)
         /\ \A k \in 1..(Rank(state_col) - 1) : ~InSeq(possible_cols[k], shp.columns)
    /\ ~HasCandidate => state_col = "None"

C9_Witness ==
  /\ GeoPage /\ pc = "done"
  /\ shp.columns = <<"NAME", "DISTRICT", "st_nm", "geometry">>
  /\ state_col = "st_nm"

\* a table without the column col
DropColumn(t, col) ==
  Table(SelectSeq(t.columns, LAMBDA c : c # col),
        [i \in 1..Len(t.rows) |-> [c \in DOMAIN t.rows[i] \ {col} |-> t.rows[i][c]]])

\* C10 as stated: every flow leaves the loaded purchase, price and geometry
\* tables with the same columns and rows as when loaded.
C10_TablesUnchanged ==
  /\ silver_sales = csv_sales
  /\ price_history = csv_prices
  /\ (GeoPage /\ pc # "read_file") => india_states = shp

\* C10 as amended: the price table is never changed and the Price Calculator
\* and Sales Insights flows change no table; the Geographical Analysis flow
\* adds a state_clean column, holding the normalized name of each row, to the
\* purchase table and to the geometry table, and leaves their other columns,
\* their rows and the row order as loaded.
C10_OnlyStateCleanAdded ==
  /\ price_history = csv_prices
  /\ ~GeoPage => silver_sales = csv_sales
  /\ (GeoPage /\ pc \in {"read_file", "detect", "check", "stopped"}) =>
       silver_sales = csv_sales
  /\ (GeoPage /\ pc \in {"detect", "check", "stopped"}) => india_states = shp
  /\ (GeoPage /\ pc \in {"merge", "plot", "done"}) =>
       /\ DropColumn(silver_sales, "state_clean") = csv_sales
       /\ DropColumn(india_states, "state_clean") = shp
       /\ silver_sales.columns = Append(csv_sales.columns, "state_clean")
       /\ india_states.columns = Append(shp.columns, "state_clean")
       /\ \A i \in 1..Len(silver_sales.rows) :
            silver_sales.rows[i].state_clean = normalize(csv_sales.rows[i].State)
       /\ \A i \in 1..Len(india_states.rows) :
            india_states.rows[i].state_clean = normalize(shp.rows[i][state_col])

C10_Witness ==
  /\ GeoPage /\ pc = "done"
  /\ Len(csv_sales.rows) > 0 /\ Len(shp.rows) > 0
  /\ silver_sales # csv_sales /\ india_states # shp
  /\ InSeq("state_clean", silver_sales.columns)
  /\ price_history = csv_prices

=============================================================================
